---- MODULE Spec2Model ----
(***************************************************************************)
(* genome-cleaner: the sequence validator (src/src/validator.py).          *)
(*                                                                         *)
(* A sequence is a Seq of one-character strings.  An error or warning      *)
(* message is the sequence of the pieces its f-string concatenates, so     *)
(* "Sequence too short: 3 bp (minimum: 5 bp)" is                           *)
(* <<"Sequence too short: ", 3, " bp (minimum: ", 5, " bp)">>.             *)
(* Python's None is the empty set and a present value x is {x}.            *)
(***************************************************************************)
EXTENDS Integers, Sequences, FiniteSets, TLC

VARIABLES
    pc,             \* which call has returned: "start" before any call
    header,         \* validate_sequence: argument header
    sequence,       \* validate_sequence: argument sequence
    min_length,     \* argument min_length of the call
    sanitize,       \* argument sanitize of the call
    result,         \* validate_sequence: the returned dict ({} before the call)
    sequences,      \* validate_sequences: argument sequences, a list of (header, sequence)
    results,        \* validate_sequences: the returned list
    results2,       \* validate_sequences: the list returned by a second run on the same input
    summary,        \* get_validation_summary: the returned dict
    report,         \* generate_report: the returned dict
    fasta_export,   \* generate_fasta_export: the lines of the returned text
    cleaned_file,   \* _save_cleaned_sequences: the lines written to the output file
    sequence_stats, \* _get_top_10_longest: argument sequence_stats
    top_10_longest, \* _get_top_10_longest: the returned list
    format,         \* save_report: argument format
    raised,         \* save_report: the exception the call raised, None if it returned
    written,        \* save_report: whether the report file was written
    result_unsanitized, \* validate_sequence: the dict returned for the same input with sanitize=False
    gc_percent,     \* calculate_gc_content: the returned float
    base_stats,     \* calculate_sequence_stats: the returned dict
    value_list,     \* _calculate_quartiles: argument values
    quartiles,      \* _calculate_quartiles: the returned dict
    length_stats,   \* _calculate_length_stats: the returned dict
    gc_stats        \* _calculate_gc_stats: the returned dict

\* The variables of the validator calls
validator_vars == <<header, sequence, min_length, sanitize, result, sequences, results, results2>>

\* The variables of the aggregators and exporters
report_vars == <<summary, report, fasta_export, cleaned_file, sequence_stats, top_10_longest,
                 format, raised, written>>

\* The variables of the calls of the statistics helpers on their own
calc_vars == <<result_unsanitized, gc_percent, base_stats, value_list, quartiles,
               length_stats, gc_stats>>

vars == <<pc, validator_vars, report_vars, calc_vars>>

----------------------------------------------------------------------------
(* Bounds of the model *)

MaxLen == 3
MaxMinLength == 2
MaxBatch == 3

(* The characters sequences are drawn from: bases in both cases, the       *)
(* ambiguity code, letters outside the alphabet in both cases, the three   *)
(* whitespace characters the validator removes and one it does not.        *)
Chars == {"A", "a", "N", "X", "z", " ", "\t", "\n", "\r"}

Headers == {"x", "y"}

Sequences == UNION {[1..n -> Chars] : n \in 0..MaxLen}

MinLengths == 0..MaxMinLength

(* The sequences batches are made of: empty, clean, one and two distinct   *)
(* offending characters.                                                   *)
BatchSequences == {<<>>, <<"A", "a">>, <<"X">>, <<"z", "X">>}

BatchRecords == Headers \X BatchSequences

Batches == UNION {[1..n -> BatchRecords] : n \in 0..MaxBatch}

(* The records the aggregators' batches are made of: clean, only N, with   *)
(* an offending character, empty, whitespace only; two share a header.     *)
ReportRecords == {<<"x", <<"G", "a">>>>, <<"x", <<"N">>>>, <<"y", <<"X">>>>,
                  <<"y", <<>>>>, <<"z", <<" ">>>>}

ReportBatches == UNION {[1..n -> ReportRecords] : n \in 0..MaxBatch}

(* The sequences GC content is computed on: every base in one case or the  *)
(* other, N, and a character outside the alphabet.                         *)
MaxGcLen == 3

GcChars == {"A", "c", "G", "t", "N", "x"}

GcSequences == UNION {[1..n -> GcChars] : n \in 0..MaxGcLen}

(* The lists the quartiles are computed on: for every length up to       *)
(* MaxValues the values 1..n, turned round by any number of places,       *)
(* ascending or descending, as they are or in tens, all different or in   *)
(* pairs of equal values; and every list of up to MaxShortValues values   *)
(* out of three.                                                          *)
MaxValues == 8

MaxShortValues == 4

ValueSteps == {1, 10}

ValueRepeats == {1, 2}

arranged_values(n, turn, descending, step, repeat) ==
    [i \in 1..n |->
        LET place == ((i - 1 + turn) % n) + 1
            rank == IF descending THEN n + 1 - place ELSE place
        IN  step * ((rank + repeat - 1) \div repeat)]

ValueLists ==
    {arranged_values(n, turn, descending, step, repeat) :
        n \in 0..MaxValues, turn \in 0..(MaxValues - 1), descending \in BOOLEAN,
        step \in ValueSteps, repeat \in ValueRepeats}
    \cup UNION {[1..n -> {1, 2, 3}] : n \in 0..MaxShortValues}

(* The sequences the complexity check is exercised on: for every length  *)
(* up to MaxLowLen and every set of characters of the alphabet, the       *)
(* characters taken in turn, or the first one repeated and then the       *)
(* others.                                                                *)
MaxLowLen == 18

alphabet_order == <<"A", "C", "G", "T", "N">>

composed_sequence(chars, n, in_turn) ==
    LET elems == SelectSeq(alphabet_order, LAMBDA c : c \in chars)
        k == Len(elems)
    IN  [i \in 1..n |->
            IF in_turn THEN elems[((i - 1) % k) + 1]
            ELSE IF n < k THEN elems[i]
            ELSE IF i <= n - k THEN elems[1]
            ELSE elems[i - (n - k)]]

LongSequences ==
    {composed_sequence(chars, n, in_turn) :
        chars \in (SUBSET {"A", "C", "G", "T", "N"}) \ {{}}, n \in 1..MaxLowLen, in_turn \in BOOLEAN}

(* The times a report is generated at *)
Timestamps == {"2024-01-01T00:00:00", "2024-01-01T00:00:01"}

(* The lists _get_top_10_longest is called with: up to MaxStats entries,   *)
(* lengths 1 or 2, indices in input order.                                 *)
MaxStats == 11

StatsLengths == {1, 2}

StatsLists ==
    UNION {{[i \in 1..n |-> [length         |-> ls[i],
                             gc_content     |-> <<0, 1>>,
                             sequence_index |-> i - 1,
                             header         |-> IF i % 2 = 1 THEN "x" ELSE "y"]] :
               ls \in [1..n -> StatsLengths]} : n \in 0..MaxStats}

----------------------------------------------------------------------------
(* Python values *)

None == {}

Some(x) == {x}

Value(opt) == CHOOSE x \in opt : TRUE

Range(s) == {s[i] : i \in 1..Len(s)}

\* str.isspace() on one character
isspace(c) == c \in {" ", "\t", "\n", "\r"}

\* str.upper() on one character
upper_char(c) ==
    CASE c = "a" -> "A"
      [] c = "c" -> "C"
      [] c = "g" -> "G"
      [] c = "t" -> "T"
      [] c = "n" -> "N"
      [] c = "x" -> "X"
      [] c = "z" -> "Z"
      [] OTHER -> c

\* str.upper()
upper(s) == [i \in 1..Len(s) |-> upper_char(s[i])]

\* str.replace(old, ""), old one character
RECURSIVE replace_empty(_, _)
replace_empty(s, old) ==
    IF s = <<>> THEN <<>>
    ELSE IF Head(s) = old THEN replace_empty(Tail(s), old)
    ELSE <<Head(s)>> \o replace_empty(Tail(s), old)

\* str.strip(): leading and trailing whitespace removed
RECURSIVE lstrip(_)
lstrip(s) ==
    IF s # <<>> /\ isspace(Head(s)) THEN lstrip(Tail(s)) ELSE s

RECURSIVE rstrip(_)
rstrip(s) ==
    IF s # <<>> /\ isspace(s[Len(s)]) THEN rstrip(SubSeq(s, 1, Len(s) - 1)) ELSE s

strip(s) == rstrip(lstrip(s))

\* The characters of 'ACGTN'
ACGTN == {"A", "C", "G", "T", "N"}

\* re.match(r'^[ACGTN]*$', s): $ also matches just before one trailing newline
valid_chars_pattern(s) ==
    LET body == IF s # <<>> /\ s[Len(s)] = "\n" THEN SubSeq(s, 1, Len(s) - 1) ELSE s
    IN  \A i \in 1..Len(body) : body[i] \in ACGTN

\* Mutant: the characters outside the alphabet are removed, not replaced
sub_N_removes(s) == SelectSeq(s, LAMBDA c : c \in ACGTN)

\* re.sub(r'[^ACGTN]', 'N', s)
sub_N(s) == [i \in 1..Len(s) |-> IF s[i] \in ACGTN THEN s[i] ELSE "N"]

(* Iteration over a set of strings follows the strings' hashes, which are  *)
(* salted per interpreter process: a process's order is an arrangement of  *)
(* the characters that reach a set during the call; the other characters'  *)
(* places change nothing the call computes.                                *)
HashOrders(S) == {o \in [1..Cardinality(S) -> S] :
                      \A i, j \in DOMAIN o : o[i] = o[j] => i = j}

\* list(a set), in the process's order
set_iter(S, order) == SelectSeq(order, LAMBDA c : c \in S)

\* sep.join(items) as the pieces it concatenates
RECURSIVE join(_, _)
join(sep, items) ==
    IF items = <<>> THEN <<>>
    ELSE IF Len(items) = 1 THEN items
    ELSE <<Head(items), sep>> \o join(sep, Tail(items))

----------------------------------------------------------------------------
(* validate_sequence *)

EmptySequenceError == <<"Empty sequence">>

InvalidCharactersPrefix == "Invalid characters found: "

TooShortPrefix == "Sequence too short: "

DuplicateHeaderPrefix == "Duplicate header found ("

OnlyNWarning == <<"Sequence contains only N characters (likely low quality)">>

LowComplexityWarning == <<"Low complexity sequence detected">>

\* The dict the function starts from
initial_result(h, s, san) ==
    [is_valid           |-> TRUE,
     errors             |-> <<>>,
     warnings           |-> <<>>,
     corrected_sequence |-> IF san THEN Some(s) ELSE None,
     header             |-> h,
     original_length    |-> Len(s),
     corrected_length   |-> IF san THEN Some(Len(s)) ELSE None]

\* Mutant: the empty check without strip(), if not sequence
is_empty_no_strip(s) == s = <<>>

\* if not sequence.strip()
is_empty(s) == strip(s) = <<>>

\* The early return of the empty check
empty_result(r) ==
    [r EXCEPT !.is_valid = FALSE, !.errors = Append(@, EmptySequenceError)]

\* Mutant: the working copy is upper-cased and keeps its whitespace
normalize_keeps_whitespace(s) == upper(s)

\* sequence.upper().replace(" ", "").replace("\t", "").replace("\n", "")
normalize(s) ==
    replace_empty(replace_empty(replace_empty(upper(s), " "), "\t"), "\n")

\* Mutant: the loop breaks at the first character outside the alphabet
collect_first_invalid_char(seq_upper) ==
    LET invalid_chars == SelectSeq(seq_upper, LAMBDA c : c \notin ACGTN)
    IN  IF invalid_chars = <<>> THEN <<>> ELSE <<Head(invalid_chars)>>

\* The list invalid_chars the loop over seq_upper collects
collect_invalid_chars(seq_upper) ==
    SelectSeq(seq_upper, LAMBDA c : c \notin ACGTN)

\* f"Invalid characters found: {', '.join(set(invalid_chars))}"
invalid_characters_error(invalid_chars, order) ==
    <<InvalidCharactersPrefix>> \o join(", ", set_iter(Range(invalid_chars), order))

\* The alphabet check: the if/else on the pattern, with the sanitization
alphabet_check(r, s, seq_upper, san, order) ==
    IF ~valid_chars_pattern(seq_upper)
    THEN LET invalid_chars == collect_invalid_chars(seq_upper)
         IN  IF invalid_chars # <<>>
             THEN LET r1 == [r EXCEPT
                                !.errors = Append(@, invalid_characters_error(invalid_chars, order)),
                                !.is_valid = FALSE]
                  IN  IF san
                      THEN [r1 EXCEPT !.corrected_sequence = Some(sub_N(seq_upper)),
                                      !.corrected_length = Some(Len(sub_N(seq_upper)))]
                      ELSE r1
             ELSE r
    ELSE [r EXCEPT !.corrected_sequence = IF san THEN Some(seq_upper) ELSE Some(s)]

\* final_sequence = result["corrected_sequence"] if sanitize else seq_upper
final_sequence(r, seq_upper, san) ==
    IF san THEN Value(r.corrected_sequence) ELSE seq_upper

\* f"Sequence too short: {len(final_sequence)} bp (minimum: {min_length} bp)"
too_short_error(n, m) == <<TooShortPrefix, n, " bp (minimum: ", m, " bp)">>

\* Mutant: the length check with <= for <
length_check_le(r, final, m) ==
    IF Len(final) <= m
    THEN [r EXCEPT !.errors = Append(@, too_short_error(Len(final), m)),
                   !.is_valid = FALSE]
    ELSE r

\* Mutant: the length check is skipped once the alphabet check has failed
length_check_short_circuit(r, final, m) ==
    IF r.is_valid /\ Len(final) < m
    THEN [r EXCEPT !.errors = Append(@, too_short_error(Len(final), m)),
                   !.is_valid = FALSE]
    ELSE r

\* The minimum length check
length_check(r, final, m) ==
    IF Len(final) < m
    THEN [r EXCEPT !.errors = Append(@, too_short_error(Len(final), m)),
                   !.is_valid = FALSE]
    ELSE r

\* The only-N warning
only_n_check(r, final) ==
    IF final # <<>> /\ \A i \in 1..Len(final) : final[i] = "N"
    THEN [r EXCEPT !.warnings = Append(@, OnlyNWarning)]
    ELSE r

low_complexity_min_len == 10

min_unique_chars == 4

\* min_unique_ratio = 0.3, as a fraction
min_unique_ratio_num == 3

min_unique_ratio_den == 10

\* Mutant: both conditions are required, few characters and a low ratio
is_low_complexity_both(s) ==
    IF Len(s) < low_complexity_min_len THEN FALSE
    ELSE LET unique_chars == Range(upper(s))
         IN  /\ Cardinality(unique_chars) < min_unique_chars
             /\ Cardinality(unique_chars) * min_unique_ratio_den
                    < min_unique_ratio_num * Len(s)

\* _is_low_complexity(sequence)
is_low_complexity(s) ==
    IF Len(s) < low_complexity_min_len THEN FALSE
    ELSE LET unique_chars == Range(upper(s))
         IN  \/ Cardinality(unique_chars) < min_unique_chars
             \/ Cardinality(unique_chars) * min_unique_ratio_den
                    < min_unique_ratio_num * Len(s)

\* The low complexity warning
low_complexity_check(r, final) ==
    IF is_low_complexity(final)
    THEN [r EXCEPT !.warnings = Append(@, LowComplexityWarning)]
    ELSE r

\* validate_sequence(header, sequence, min_length, sanitize), run in a
\* process whose set iteration order is order
validate_sequence(h, s, m, san, order) ==
    LET r0 == initial_result(h, s, san)
    IN  IF is_empty(s) THEN empty_result(r0)
        ELSE LET seq_upper == normalize(s)
                 r1 == alphabet_check(r0, s, seq_upper, san, order)
                 final == final_sequence(r1, seq_upper, san)
                 r2 == length_check(r1, final, m)
                 r3 == only_n_check(r2, final)
             IN  low_complexity_check(r3, final)

----------------------------------------------------------------------------
(* validate_sequences *)

\* Counter(headers)[h]
header_counts(seqs, h) == Cardinality({i \in 1..Len(seqs) : seqs[i][1] = h})

\* {header for header, count in header_counts.items() if count > 1}
duplicate_headers(seqs) ==
    {h \in {seqs[i][1] : i \in 1..Len(seqs)} : header_counts(seqs, h) > 1}

\* f"Duplicate header found ({duplicate_count} occurrences)"
duplicate_header_error(k) == <<DuplicateHeaderPrefix, k, " occurrences)">>

\* Mutant: the duplicate error is appended and is_valid is left as it was
duplicate_check_keeps_valid(r, seqs, i) ==
    IF seqs[i][1] \in duplicate_headers(seqs)
    THEN [r EXCEPT !.errors = Append(@, duplicate_header_error(header_counts(seqs, seqs[i][1])))]
    ELSE r

\* Mutant: only the second and later occurrences of a header are flagged
duplicate_check_later_only(r, seqs, i) ==
    IF \E j \in 1..(i - 1) : seqs[j][1] = seqs[i][1]
    THEN [r EXCEPT !.errors = Append(@, duplicate_header_error(header_counts(seqs, seqs[i][1]))),
                   !.is_valid = FALSE]
    ELSE r

\* The duplicate header check of the loop body, for the record at
\* position i (1-based here)
duplicate_check(r, seqs, i) ==
    IF seqs[i][1] \in duplicate_headers(seqs)
    THEN [r EXCEPT !.errors = Append(@, duplicate_header_error(header_counts(seqs, seqs[i][1]))),
                   !.is_valid = FALSE]
    ELSE r

\* result["sequence_index"] = i, i the 0-based position
with_sequence_index(r, i) ==
    [is_valid           |-> r.is_valid,
     errors             |-> r.errors,
     warnings           |-> r.warnings,
     corrected_sequence |-> r.corrected_sequence,
     header             |-> r.header,
     original_length    |-> r.original_length,
     corrected_length   |-> r.corrected_length,
     sequence_index     |-> i - 1]

\* The loop body for the record at position i (1-based here)
validate_record(seqs, i, m, san, order) ==
    with_sequence_index(
        duplicate_check(validate_sequence(seqs[i][1], seqs[i][2], m, san, order), seqs, i),
        i)

\* Mutant: the loop skips the records whose sequence is empty
validate_sequences_skip_empty(seqs, m, san, order) ==
    LET kept == SelectSeq([i \in 1..Len(seqs) |-> i], LAMBDA i : seqs[i][2] # <<>>)
    IN  [k \in 1..Len(kept) |-> validate_record(seqs, kept[k], m, san, order)]

\* validate_sequences(sequences, min_length, sanitize), run in a process
\* whose set iteration order is order
validate_sequences(seqs, m, san, order) ==
    [i \in 1..Len(seqs) |-> validate_record(seqs, i, m, san, order)]

\* The characters a call of validate_sequence puts in a set
hashed_chars(s) == Range(collect_invalid_chars(normalize(s)))

\* The characters a call of validate_sequences puts in sets
batch_hashed_chars(seqs) == UNION {hashed_chars(seqs[i][2]) : i \in 1..Len(seqs)}

----------------------------------------------------------------------------
(* Python values of the aggregators *)

\* A float that is the quotient n / d, kept exact
Frac(n, d) == <<n, d>>

\* Two quotients are the same number
FracEq(p, q) == p[1] * q[2] = q[1] * p[2]

\* p < q, the denominators positive
FracLess(p, q) == p[1] * q[2] < q[1] * p[2]

\* (n / d) * 100
percent(n, d) == Frac(n * 100, d)

\* A dict with no keys
EmptyDict == [k \in {} |-> 0]

\* bool(x) of an optional string: None and "" are false
truthy(opt) == opt # None /\ Value(opt) # <<>>

\* result.get("original_sequence", "")
get_original_sequence(r) ==
    IF "original_sequence" \in DOMAIN r THEN r.original_sequence ELSE <<>>

\* result.get("corrected_sequence") or result.get("original_sequence", "")
sequence_for_output(r) ==
    IF truthy(r.corrected_sequence) THEN Value(r.corrected_sequence)
    ELSE get_original_sequence(r)

\* needle in error, for the needles the aggregators look for: the text each
\* is part of is the first piece of one message, and no other piece of a
\* message (a number, a character, ", ", " bp") holds any of them
in_error(needle, error) ==
    CASE needle = "Invalid characters" -> error[1] = InvalidCharactersPrefix
      [] needle = "too short"          -> error[1] = TooShortPrefix
      [] needle = "Duplicate header"   -> error[1] = DuplicateHeaderPrefix
      [] needle = "Empty sequence"     -> error[1] = "Empty sequence"
      [] OTHER                         -> FALSE

\* sum(1 for x in xs if ...), flags the values of the condition on the items
count_true(flags) == Cardinality({i \in 1..Len(flags) : flags[i]})

\* The concatenation of the lists of a list
RECURSIVE flatten(_)
flatten(xss) == IF xss = <<>> THEN <<>> ELSE Head(xss) \o flatten(Tail(xss))

\* A dict of counts: each label of a list with the number of its occurrences
counts_of(labels) ==
    [k \in Range(labels) |-> Cardinality({i \in 1..Len(labels) : labels[i] = k})]

----------------------------------------------------------------------------
(* get_validation_summary *)

\* The sanitized test: corrected_sequence is set and differs from
\* original_sequence (the empty string when the key is absent)
counts_as_sanitized(r) ==
    /\ truthy(r.corrected_sequence)
    /\ Value(r.corrected_sequence) # get_original_sequence(r)

\* any("Duplicate header" in error for error in result["errors"])
has_duplicate_header_error(r) ==
    \E j \in 1..Len(r.errors) : in_error("Duplicate header", r.errors[j])

\* The label the summary counts an error under
summary_error_type(error) ==
    IF in_error("Invalid characters", error) THEN "Invalid characters"
    ELSE IF in_error("too short", error) THEN "Too short"
    ELSE IF in_error("Duplicate header", error) THEN "Duplicate headers"
    ELSE IF in_error("Empty sequence", error) THEN "Empty sequence"
    ELSE "Other"

\* get_validation_summary(validation_results)
get_validation_summary(vr) ==
    IF vr = <<>>
    THEN [total_sequences     |-> 0,
          valid_sequences     |-> 0,
          invalid_sequences   |-> 0,
          sanitized_sequences |-> 0,
          duplicate_headers   |-> 0,
          total_errors        |-> 0,
          error_types         |-> EmptyDict]
    ELSE LET total == Len(vr)
             valid == count_true([i \in 1..Len(vr) |-> vr[i].is_valid])
             all_errors == flatten([i \in 1..Len(vr) |-> vr[i].errors])
         IN  [total_sequences     |-> total,
              valid_sequences     |-> valid,
              invalid_sequences   |-> total - valid,
              sanitized_sequences |-> count_true([i \in 1..Len(vr) |-> counts_as_sanitized(vr[i])]),
              duplicate_headers   |-> count_true([i \in 1..Len(vr) |-> has_duplicate_header_error(vr[i])]),
              total_errors        |-> Len(all_errors),
              error_types         |-> counts_of([j \in 1..Len(all_errors) |->
                                                    summary_error_type(all_errors[j])]),
              validity_percentage |-> IF total > 0 THEN percent(valid, total) ELSE Frac(0, 1)]

----------------------------------------------------------------------------
(* generate_report *)

\* sorted(xs, key=...): a stable sort; less[i, j] says that the key of
\* xs[i] comes strictly before the key of xs[j]
stable_sort(xs, less) ==
    LET rank(i) == 1 + Cardinality({j \in 1..Len(xs) :
                           \/ less[j, i]
                           \/ (~less[i, j] /\ j < i)})
    IN  [p \in 1..Len(xs) |-> xs[CHOOSE i \in 1..Len(xs) : rank(i) = p]]

\* sum(xs) of integers
RECURSIVE sum(_)
sum(xs) == IF xs = <<>> THEN 0 ELSE Head(xs) + sum(Tail(xs))

\* sum(xs) of quotients
RECURSIVE frac_sum(_)
frac_sum(xs) ==
    IF xs = <<>> THEN Frac(0, 1)
    ELSE LET rest == frac_sum(Tail(xs))
         IN  Frac(Head(xs)[1] * rest[2] + rest[1] * Head(xs)[2], Head(xs)[2] * rest[2])

\* str.count(c)
count_char(s, c) == Cardinality({i \in 1..Len(s) : s[i] = c})

\* The GC content the report computes for a sequence
report_gc_content(seq_upper) ==
    LET gc_count == count_char(seq_upper, "G") + count_char(seq_upper, "C")
        at_count == count_char(seq_upper, "A") + count_char(seq_upper, "T")
        valid_bases == gc_count + at_count
    IN  IF valid_bases > 0 THEN percent(gc_count, valid_bases) ELSE Frac(0, 1)

\* The entry of sequence_statistics for the result at position i (1-based
\* here) whose analyzed sequence is s
sequence_stats_entry(r, i, s) ==
    LET seq_upper == upper(s)
    IN  [length         |-> Len(seq_upper),
         gc_content     |-> report_gc_content(seq_upper),
         a_count        |-> count_char(seq_upper, "A"),
         t_count        |-> count_char(seq_upper, "T"),
         g_count        |-> count_char(seq_upper, "G"),
         c_count        |-> count_char(seq_upper, "C"),
         n_count        |-> count_char(seq_upper, "N"),
         valid_chars    |-> count_char(seq_upper, "A") + count_char(seq_upper, "T")
                            + count_char(seq_upper, "G") + count_char(seq_upper, "C"),
         sequence_index |-> i - 1,
         header         |-> r.header,
         is_valid       |-> r.is_valid]

\* if sequence: the result contributes to the length, GC and statistics lists
contributes(r) == sequence_for_output(r) # <<>>

\* The list sequence_stats the loop builds
collect_sequence_stats(vr) ==
    LET kept == SelectSeq([i \in 1..Len(vr) |-> i], LAMBDA i : contributes(vr[i]))
    IN  [k \in 1..Len(kept) |->
            sequence_stats_entry(vr[kept[k]], kept[k], sequence_for_output(vr[kept[k]]))]

\* _classify_error(error)
classify_error(error) ==
    IF in_error("Invalid characters", error) THEN "Invalid characters"
    ELSE IF in_error("too short", error) THEN "Too short"
    ELSE IF in_error("Duplicate header", error) THEN "Duplicate header"
    ELSE IF in_error("Empty sequence", error) THEN "Empty sequence"
    ELSE "Other"

\* The list invalid_sequences the loop builds
collect_invalid_sequences(vr) ==
    LET kept == SelectSeq([i \in 1..Len(vr) |-> i], LAMBDA i : ~vr[i].is_valid)
    IN  [k \in 1..Len(kept) |->
            [index    |-> kept[k] - 1,
             header   |-> vr[kept[k]].header,
             errors   |-> vr[kept[k]].errors,
             warnings |-> vr[kept[k]].warnings,
             length   |-> vr[kept[k]].original_length]]

\* The list error_details the loop builds
collect_error_details(vr) ==
    flatten([i \in 1..Len(vr) |->
                IF vr[i].is_valid THEN <<>>
                ELSE [j \in 1..Len(vr[i].errors) |->
                         [sequence_index |-> i - 1,
                          header         |-> vr[i].header,
                          error          |-> vr[i].errors[j],
                          error_type     |-> classify_error(vr[i].errors[j])]]])

\* Mutant: the values are indexed as they come, without sorting
calculate_quartiles_unsorted(values) ==
    LET n == Len(values)
    IN  [q1 |-> IF n > 0 THEN values[(n \div 4) + 1] ELSE 0,
         q2 |-> IF n > 0 THEN values[(n \div 2) + 1] ELSE 0,
         q3 |-> IF n > 0 THEN values[((3 * n) \div 4) + 1] ELSE 0]

\* _calculate_quartiles(values)
calculate_quartiles(values) ==
    LET sorted_values == stable_sort(values, [i, j \in 1..Len(values) |-> values[i] < values[j]])
        n == Len(sorted_values)
    IN  [q1 |-> IF n > 0 THEN sorted_values[(n \div 4) + 1] ELSE 0,
         q2 |-> IF n > 0 THEN sorted_values[(n \div 2) + 1] ELSE 0,
         q3 |-> IF n > 0 THEN sorted_values[((3 * n) \div 4) + 1] ELSE 0]

\* _calculate_length_stats(lengths)
calculate_length_stats(lengths) ==
    IF lengths = <<>> THEN EmptyDict
    ELSE LET sorted_lengths == stable_sort(lengths, [i, j \in 1..Len(lengths) |-> lengths[i] < lengths[j]])
         IN  [min       |-> sorted_lengths[1],
              max       |-> sorted_lengths[Len(lengths)],
              mean      |-> Frac(sum(lengths), Len(lengths)),
              median    |-> sorted_lengths[(Len(lengths) \div 2) + 1],
              total     |-> sum(lengths),
              count     |-> Len(lengths),
              quartiles |-> calculate_quartiles(lengths)]

\* _calculate_gc_stats(gc_contents)
calculate_gc_stats(gc_contents) ==
    IF gc_contents = <<>> THEN EmptyDict
    ELSE LET sorted_gc == stable_sort(gc_contents, [i, j \in 1..Len(gc_contents) |->
                                 FracLess(gc_contents[i], gc_contents[j])])
             total == frac_sum(gc_contents)
         IN  [min    |-> sorted_gc[1],
              max    |-> sorted_gc[Len(gc_contents)],
              mean   |-> Frac(total[1], total[2] * Len(gc_contents)),
              median |-> sorted_gc[(Len(gc_contents) \div 2) + 1],
              count  |-> Len(gc_contents)]

\* sorted_stats[:10]
top_n == 10

\* Mutant: the list is sorted ascending and then reversed, which turns the
\* order of equal lengths around
get_top_10_longest_reversed(stats) ==
    LET sorted_stats == stable_sort(stats, [i, j \in 1..Len(stats) |->
                            \/ stats[i].length > stats[j].length
                            \/ (stats[i].length = stats[j].length /\ i > j)])
        n == IF Len(sorted_stats) < top_n THEN Len(sorted_stats) ELSE top_n
    IN  [p \in 1..n |->
            [rank           |-> p,
             header         |-> sorted_stats[p].header,
             length         |-> sorted_stats[p].length,
             gc_content     |-> sorted_stats[p].gc_content,
             sequence_index |-> sorted_stats[p].sequence_index]]

\* _get_top_10_longest(sequence_stats)
get_top_10_longest(stats) ==
    LET sorted_stats == stable_sort(stats, [i, j \in 1..Len(stats) |-> stats[i].length > stats[j].length])
        n == IF Len(sorted_stats) < top_n THEN Len(sorted_stats) ELSE top_n
    IN  [p \in 1..n |->
            [rank           |-> p,
             header         |-> sorted_stats[p].header,
             length         |-> sorted_stats[p].length,
             gc_content     |-> sorted_stats[p].gc_content,
             sequence_index |-> sorted_stats[p].sequence_index]]

\* Mutant: among the types with the highest count the one met last wins
analyze_errors_last_wins(error_details) ==
    IF error_details = <<>>
    THEN [total_errors      |-> 0,
          error_types       |-> EmptyDict,
          most_common_error |-> None]
    ELSE LET labels == [j \in 1..Len(error_details) |-> error_details[j].error_type]
             error_types == counts_of(labels)
             last == CHOOSE j \in 1..Len(labels) :
                         /\ \A k \in 1..Len(labels) :
                                error_types[labels[k]] <= error_types[labels[j]]
                         /\ \A k \in (j + 1)..Len(labels) :
                                error_types[labels[k]] < error_types[labels[j]]
         IN  [total_errors      |-> Len(error_details),
              error_types       |-> error_types,
              most_common_error |-> Some(labels[last]),
              most_common_count |-> error_types[labels[last]]]

\* _analyze_errors(error_details)
analyze_errors(error_details) ==
    IF error_details = <<>>
    THEN [total_errors      |-> 0,
          error_types       |-> EmptyDict,
          most_common_error |-> None]
    ELSE LET labels == [j \in 1..Len(error_details) |-> error_details[j].error_type]
             error_types == counts_of(labels)
             \* max() keeps the first of the items with the highest count, in
             \* the dict's insertion order: the order of first occurrence
             first == CHOOSE j \in 1..Len(labels) :
                          /\ \A k \in 1..Len(labels) :
                                 error_types[labels[k]] <= error_types[labels[j]]
                          /\ \A k \in 1..(j - 1) :
                                 error_types[labels[k]] < error_types[labels[j]]
         IN  [total_errors      |-> Len(error_details),
              error_types       |-> error_types,
              most_common_error |-> Some(labels[first]),
              most_common_count |-> error_types[labels[first]]]

\* Mutant: the warnings are not looked at, a result without errors is
\* always of high quality
quality_level_ignores_warnings(r) ==
    IF Len(r.errors) = 0 THEN "high_quality"
    ELSE IF \E j \in 1..Len(r.errors) : in_error("Invalid characters", r.errors[j])
         THEN "low_quality"
         ELSE "unusable"

\* The class _calculate_quality_distribution counts a result in
quality_level(r) ==
    LET has_errors == Len(r.errors) > 0
        has_warnings == Len(r.warnings) > 0
    IN  IF ~has_errors
        THEN IF ~has_warnings THEN "high_quality" ELSE "medium_quality"
        ELSE IF \E j \in 1..Len(r.errors) : in_error("Invalid characters", r.errors[j])
             THEN "low_quality"
             ELSE "unusable"

\* _calculate_quality_distribution(validation_results)
calculate_quality_distribution(vr) ==
    IF vr = <<>> THEN EmptyDict
    ELSE [level \in {"high_quality", "medium_quality", "low_quality", "unusable"} |->
             count_true([i \in 1..Len(vr) |-> quality_level(vr[i]) = level])]

\* Mutant: the summary of the empty report is the one get_validation_summary
\* returns for an empty batch, without the two percentages
empty_report_without_rates(now) ==
    [metadata |-> [generated_at |-> now, total_sequences |-> 0, tool_version |-> "1.0.0"],
     summary  |-> [total_sequences     |-> 0,
                   valid_sequences     |-> 0,
                   invalid_sequences   |-> 0,
                   sanitized_sequences |-> 0,
                   duplicate_headers   |-> 0],
     sequence_lengths         |-> EmptyDict,
     gc_content               |-> EmptyDict,
     top_10_longest           |-> <<>>,
     quality_distribution     |-> EmptyDict,
     error_analysis           |-> EmptyDict,
     invalid_sequences_detail |-> <<>>,
     sequence_statistics      |-> <<>>]

\* _empty_report(), generated at the time now
empty_report(now) ==
    [metadata |-> [generated_at |-> now, total_sequences |-> 0, tool_version |-> "1.0.0"],
     summary  |-> [total_sequences     |-> 0,
                   valid_sequences     |-> 0,
                   invalid_sequences   |-> 0,
                   sanitized_sequences |-> 0,
                   duplicate_headers   |-> 0,
                   validity_percentage |-> Frac(0, 1),
                   sanitization_rate   |-> Frac(0, 1)],
     sequence_lengths         |-> EmptyDict,
     gc_content               |-> EmptyDict,
     top_10_longest           |-> <<>>,
     quality_distribution     |-> EmptyDict,
     error_analysis           |-> EmptyDict,
     invalid_sequences_detail |-> <<>>,
     sequence_statistics      |-> <<>>]

\* generate_report(validation_results), generated at the time now
generate_report(vr, now) ==
    IF vr = <<>> THEN empty_report(now)
    ELSE LET total_seqs == Len(vr)
             valid_seqs == count_true([i \in 1..Len(vr) |-> vr[i].is_valid])
             sanitized_seqs == count_true([i \in 1..Len(vr) |-> counts_as_sanitized(vr[i])])
             stats == collect_sequence_stats(vr)
             lengths == [k \in 1..Len(stats) |-> stats[k].length]
             gc_contents == [k \in 1..Len(stats) |-> stats[k].gc_content]
         IN  [metadata |-> [generated_at    |-> now,
                            total_sequences |-> total_seqs,
                            tool_version    |-> "1.0.0"],
              summary  |-> [total_sequences     |-> total_seqs,
                            valid_sequences     |-> valid_seqs,
                            invalid_sequences   |-> total_seqs - valid_seqs,
                            sanitized_sequences |-> sanitized_seqs,
                            duplicate_headers   |-> count_true([i \in 1..Len(vr) |-> has_duplicate_header_error(vr[i])]),
                            validity_percentage |-> IF total_seqs > 0
                                                    THEN percent(valid_seqs, total_seqs)
                                                    ELSE Frac(0, 1),
                            sanitization_rate   |-> IF total_seqs > 0
                                                    THEN percent(sanitized_seqs, total_seqs)
                                                    ELSE Frac(0, 1)],
              sequence_lengths         |-> calculate_length_stats(lengths),
              gc_content               |-> calculate_gc_stats(gc_contents),
              top_10_longest           |-> get_top_10_longest(stats),
              quality_distribution     |-> calculate_quality_distribution(vr),
              error_analysis           |-> analyze_errors(collect_error_details(vr)),
              invalid_sequences_detail |-> collect_invalid_sequences(vr),
              sequence_statistics      |-> stats]

----------------------------------------------------------------------------
(* calculate_gc_content, calculate_sequence_stats *)

\* Mutant: the N's count in the denominator
calculate_gc_content_counts_n(s) ==
    IF s = <<>> THEN Frac(0, 1)
    ELSE LET seq_upper == upper(s)
             gc_count == count_char(seq_upper, "G") + count_char(seq_upper, "C")
             at_count == count_char(seq_upper, "A") + count_char(seq_upper, "T")
             valid_bases == gc_count + at_count + count_char(seq_upper, "N")
         IN  IF valid_bases = 0 THEN Frac(0, 1) ELSE percent(gc_count, valid_bases)

\* calculate_gc_content(sequence)
calculate_gc_content(s) ==
    IF s = <<>> THEN Frac(0, 1)
    ELSE LET seq_upper == upper(s)
             gc_count == count_char(seq_upper, "G") + count_char(seq_upper, "C")
             at_count == count_char(seq_upper, "A") + count_char(seq_upper, "T")
             valid_bases == gc_count + at_count
         IN  IF valid_bases = 0 THEN Frac(0, 1) ELSE percent(gc_count, valid_bases)

\* calculate_sequence_stats(sequence)
calculate_sequence_stats(s) ==
    IF s = <<>>
    THEN [length      |-> 0,
          gc_content  |-> Frac(0, 1),
          a_count     |-> 0,
          t_count     |-> 0,
          g_count     |-> 0,
          c_count     |-> 0,
          n_count     |-> 0,
          valid_chars |-> 0]
    ELSE LET seq_upper == upper(s)
         IN  [length      |-> Len(seq_upper),
              gc_content  |-> calculate_gc_content(seq_upper),
              a_count     |-> count_char(seq_upper, "A"),
              t_count     |-> count_char(seq_upper, "T"),
              g_count     |-> count_char(seq_upper, "G"),
              c_count     |-> count_char(seq_upper, "C"),
              n_count     |-> count_char(seq_upper, "N"),
              valid_chars |-> count_char(seq_upper, "A") + count_char(seq_upper, "T")
                              + count_char(seq_upper, "G") + count_char(seq_upper, "C")]

----------------------------------------------------------------------------
(* The cleaned-sequence exports.  A text is the list of its lines: a header
   line is <<">", header>>, a sequence line is a sequence of characters and
   a blank line is <<>>. *)

\* range(0, len(sequence), 60) in generate_fasta_export
fasta_line_width == 60

\* range(0, len(sequence), 60) in _save_cleaned_sequences
cleaned_line_width == 60

\* [sequence[i:i+width] for i in range(0, len(sequence), width)]
wrap(s, width) ==
    [k \in 1..((Len(s) + width - 1) \div width) |->
        SubSeq(s, (k - 1) * width + 1, IF k * width < Len(s) THEN k * width ELSE Len(s))]

\* The lines of one exported record
fasta_record(h, s, width) == <<<<">", h>>>> \o wrap(s, width) \o <<<<>>>>

\* generate_fasta_export(validation_results): the lines the returned text joins
generate_fasta_export(vr) ==
    flatten([i \in 1..Len(vr) |->
                IF vr[i].is_valid /\ sequence_for_output(vr[i]) # <<>>
                THEN fasta_record(vr[i].header, sequence_for_output(vr[i]), fasta_line_width)
                ELSE <<>>])

\* _save_cleaned_sequences(validation_results, output_path, verbose): the
\* lines written to the file
save_cleaned_sequences(vr) ==
    flatten([i \in 1..Len(vr) |->
                IF sequence_for_output(vr[i]) # <<>>
                THEN fasta_record(vr[i].header, sequence_for_output(vr[i]), cleaned_line_width)
                ELSE <<>>])

----------------------------------------------------------------------------
(* save_report *)

\* The formats save_report is called with
Formats == {"json", "JSON", "csv", "xml"}

\* format.lower()
lower_format(f) == IF f = "JSON" THEN "json" ELSE f

\* The ValueError of the else branch
unsupported_format_error(f) ==
    [type |-> "ValueError", message |-> <<"Unsupported format: ", f, ". Use 'json' or 'csv'">>]

\* The OSError open() raises on a path that cannot be written
open_error == [type |-> "OSError", message |-> <<"No such file or directory">>]

\* What the try block raises: None when the file is written
try_save(f, writable) ==
    IF lower_format(f) \in {"json", "csv"}
    THEN IF writable THEN None ELSE Some(open_error)
    ELSE Some(unsupported_format_error(f))

\* except Exception as e: raise IOError(f"Error saving report: {str(e)}")
reraise(e) == [type |-> "IOError", message |-> <<"Error saving report: ">> \o e.message]

\* What save_report raises: None when it returns the path
save_report_raises(f, writable) ==
    IF try_save(f, writable) = None THEN None
    ELSE Some(reraise(Value(try_save(f, writable))))

\* Whether save_report wrote the file
save_report_writes(f, writable) == try_save(f, writable) = None

----------------------------------------------------------------------------
(* The calls *)

Init ==
    /\ pc = "start"
    /\ header = ""
    /\ sequence = <<>>
    /\ min_length = 0
    /\ sanitize = FALSE
    /\ result = None
    /\ sequences = <<>>
    /\ results = <<>>
    /\ results2 = <<>>
    /\ summary = None
    /\ report = None
    /\ fasta_export = None
    /\ cleaned_file = None
    /\ sequence_stats = <<>>
    /\ top_10_longest = <<>>
    /\ format = ""
    /\ raised = None
    /\ written = FALSE
    /\ result_unsanitized = None
    /\ gc_percent = None
    /\ base_stats = None
    /\ value_list = <<>>
    /\ quartiles = None
    /\ length_stats = None
    /\ gc_stats = None

\* One call of validate_sequence
ValidateSequence ==
    /\ pc = "start"
    /\ \E h \in Headers, s \in Sequences, m \in MinLengths, san \in BOOLEAN :
       \E order \in HashOrders(hashed_chars(s)) :
          /\ header' = h
          /\ sequence' = s
          /\ min_length' = m
          /\ sanitize' = san
          /\ result' = validate_sequence(h, s, m, san, order)
    /\ pc' = "validate_sequence"
    /\ UNCHANGED <<sequences, results, results2>>
    /\ UNCHANGED report_vars
    /\ UNCHANGED calc_vars

\* One call of validate_sequences
ValidateSequences ==
    /\ pc = "start"
    /\ \E seqs \in Batches, m \in MinLengths, san \in BOOLEAN :
       \E order \in HashOrders(batch_hashed_chars(seqs)) :
          /\ sequences' = seqs
          /\ min_length' = m
          /\ sanitize' = san
          /\ results' = validate_sequences(seqs, m, san, order)
    /\ pc' = "validate_sequences"
    /\ UNCHANGED <<header, sequence, result, results2>>
    /\ UNCHANGED report_vars
    /\ UNCHANGED calc_vars

\* The same batch validated again, by another run of the program
Rerun ==
    /\ pc = "validate_sequences"
    /\ \E order \in HashOrders(batch_hashed_chars(sequences)) :
          results2' = validate_sequences(sequences, min_length, sanitize, order)
    /\ pc' = "rerun"
    /\ UNCHANGED <<header, sequence, min_length, sanitize, result, sequences, results>>
    /\ UNCHANGED report_vars
    /\ UNCHANGED calc_vars

Next == ValidateSequence \/ ValidateSequences \/ Rerun

Spec == Init /\ [][Next]_vars

----------------------------------------------------------------------------
(* The pipeline of the command line and of the web page: a batch is
   validated, then summarized, reported or exported *)

\* validation_results = validate_sequences(sequences, min_length, sanitize)
ValidateBatch ==
    /\ pc = "start"
    /\ \E seqs \in ReportBatches, m \in MinLengths, san \in BOOLEAN :
       \E order \in HashOrders(batch_hashed_chars(seqs)) :
          /\ sequences' = seqs
          /\ min_length' = m
          /\ sanitize' = san
          /\ results' = validate_sequences(seqs, m, san, order)
    /\ pc' = "validate_sequences"
    /\ UNCHANGED <<header, sequence, result, results2>>
    /\ UNCHANGED report_vars
    /\ UNCHANGED calc_vars

\* summary = get_validation_summary(validation_results)
GetValidationSummary ==
    /\ pc = "validate_sequences"
    /\ summary' = get_validation_summary(results)
    /\ pc' = "get_validation_summary"
    /\ UNCHANGED validator_vars
    /\ UNCHANGED <<report, fasta_export, cleaned_file, sequence_stats, top_10_longest,
                   format, raised, written>>
    /\ UNCHANGED calc_vars

\* _display_summary(summary): the table row that reads
\* summary['validity_percentage'] raises KeyError when the key is absent
DisplaySummary ==
    /\ pc = "get_validation_summary"
    /\ raised' = IF "validity_percentage" \in DOMAIN summary
                 THEN None
                 ELSE Some([type |-> "KeyError", message |-> <<"validity_percentage">>])
    /\ pc' = "display_summary"
    /\ UNCHANGED validator_vars
    /\ UNCHANGED <<summary, report, fasta_export, cleaned_file, sequence_stats,
                   top_10_longest, format, written>>
    /\ UNCHANGED calc_vars

\* report_data = generate_report(validation_results)
GenerateReport ==
    /\ pc = "validate_sequences"
    /\ \E now \in Timestamps : report' = generate_report(results, now)
    /\ pc' = "generate_report"
    /\ UNCHANGED validator_vars
    /\ UNCHANGED <<summary, fasta_export, cleaned_file, sequence_stats, top_10_longest,
                   format, raised, written>>
    /\ UNCHANGED calc_vars

\* fasta_content = generate_fasta_export(validation_results)
GenerateFastaExport ==
    /\ pc = "validate_sequences"
    /\ fasta_export' = Some(generate_fasta_export(results))
    /\ pc' = "generate_fasta_export"
    /\ UNCHANGED validator_vars
    /\ UNCHANGED <<summary, report, cleaned_file, sequence_stats, top_10_longest,
                   format, raised, written>>
    /\ UNCHANGED calc_vars

\* if sanitize and output: _save_cleaned_sequences(validation_results, output, verbose);
\* a path that cannot be written raises ClickException
SaveCleanedSequences ==
    /\ pc = "validate_sequences"
    /\ sanitize
    /\ \E writable \in BOOLEAN :
          IF writable
          THEN /\ cleaned_file' = Some(save_cleaned_sequences(results))
               /\ raised' = None
          ELSE /\ cleaned_file' = None
               /\ raised' = Some([type |-> "ClickException",
                                   message |-> <<"Error saving cleaned sequences: ">>
                                               \o open_error.message])
    /\ pc' = "save_cleaned_sequences"
    /\ UNCHANGED validator_vars
    /\ UNCHANGED <<summary, report, fasta_export, sequence_stats, top_10_longest,
                   format, written>>
    /\ UNCHANGED calc_vars

\* if report: report_data = generate_report(validation_results), reached
\* once the summary has been displayed
ReportAfterSummary ==
    /\ pc = "display_summary"
    /\ raised = None
    /\ \E now \in Timestamps : report' = generate_report(results, now)
    /\ pc' = "report_after_summary"
    /\ UNCHANGED validator_vars
    /\ UNCHANGED <<summary, fasta_export, cleaned_file, sequence_stats, top_10_longest,
                   format, raised, written>>
    /\ UNCHANGED calc_vars

NextReport ==
    \/ ValidateBatch
    \/ GetValidationSummary
    \/ DisplaySummary
    \/ ReportAfterSummary
    \/ GenerateReport
    \/ GenerateFastaExport
    \/ SaveCleanedSequences

SpecReport == Init /\ [][NextReport]_vars

----------------------------------------------------------------------------
(* GC content: the helpers of the validator on their own, and on the
   sequence a report analyzes *)

\* One call of calculate_gc_content and of calculate_sequence_stats
CalculateGcContent ==
    /\ pc = "start"
    /\ \E s \in GcSequences :
          /\ sequence' = s
          /\ gc_percent' = Some(calculate_gc_content(s))
          /\ base_stats' = Some(calculate_sequence_stats(s))
    /\ pc' = "calculate_gc_content"
    /\ UNCHANGED <<header, min_length, sanitize, result, sequences, results, results2>>
    /\ UNCHANGED report_vars
    /\ UNCHANGED <<result_unsanitized, value_list, quartiles, length_stats, gc_stats>>

\* validation_results = validate_sequences(sequences, min_length, sanitize),
\* for a file of one record
ValidateGcRecord ==
    /\ pc = "start"
    /\ \E s \in GcSequences, san \in BOOLEAN :
       \E order \in HashOrders(hashed_chars(s)) :
          /\ sequences' = <<<<"x", s>>>>
          /\ min_length' = 0
          /\ sanitize' = san
          /\ results' = validate_sequences(<<<<"x", s>>>>, 0, san, order)
    /\ pc' = "validate_sequences"
    /\ UNCHANGED <<header, sequence, result, results2>>
    /\ UNCHANGED report_vars
    /\ UNCHANGED calc_vars

\* The GC content of the sequence the report has analyzed, as the charts
\* of the web page compute it: if sequence: calculate_gc_content(sequence)
ChartGcContent ==
    /\ pc = "generate_report"
    /\ Len(results) = 1
    /\ sequence_for_output(results[1]) # <<>>
    /\ sequence' = sequence_for_output(results[1])
    /\ gc_percent' = Some(calculate_gc_content(sequence_for_output(results[1])))
    /\ base_stats' = Some(calculate_sequence_stats(sequence_for_output(results[1])))
    /\ pc' = "chart_gc_content"
    /\ UNCHANGED <<header, min_length, sanitize, result, sequences, results, results2>>
    /\ UNCHANGED report_vars
    /\ UNCHANGED <<result_unsanitized, value_list, quartiles, length_stats, gc_stats>>

NextGc ==
    \/ CalculateGcContent
    \/ ValidateGcRecord
    \/ GenerateReport
    \/ ChartGcContent

SpecGc == Init /\ [][NextGc]_vars

----------------------------------------------------------------------------
(* Quartiles and medians: the statistics helpers on a list of values *)

\* One call of _calculate_quartiles
CalculateQuartiles ==
    /\ pc = "start"
    /\ \E values \in ValueLists :
          /\ value_list' = values
          /\ quartiles' = calculate_quartiles(values)
    /\ pc' = "calculate_quartiles"
    /\ UNCHANGED validator_vars
    /\ UNCHANGED report_vars
    /\ UNCHANGED <<result_unsanitized, gc_percent, base_stats, length_stats, gc_stats>>

\* One call of _calculate_length_stats
CalculateLengthStats ==
    /\ pc = "start"
    /\ \E lengths \in ValueLists :
          /\ value_list' = lengths
          /\ length_stats' = calculate_length_stats(lengths)
    /\ pc' = "calculate_length_stats"
    /\ UNCHANGED validator_vars
    /\ UNCHANGED report_vars
    /\ UNCHANGED <<result_unsanitized, gc_percent, base_stats, quartiles, gc_stats>>

\* One call of _calculate_gc_stats, the values as percentages
CalculateGcStats ==
    /\ pc = "start"
    /\ \E values \in ValueLists :
          /\ value_list' = [i \in 1..Len(values) |-> Frac(values[i], 1)]
          /\ gc_stats' = calculate_gc_stats([i \in 1..Len(values) |-> Frac(values[i], 1)])
    /\ pc' = "calculate_gc_stats"
    /\ UNCHANGED validator_vars
    /\ UNCHANGED report_vars
    /\ UNCHANGED <<result_unsanitized, gc_percent, base_stats, quartiles, length_stats>>

NextQuartiles == CalculateQuartiles \/ CalculateLengthStats \/ CalculateGcStats

SpecQuartiles == Init /\ [][NextQuartiles]_vars

----------------------------------------------------------------------------
(* validate_sequence with and without sanitization *)

\* Two calls of validate_sequence in one process, on the same header,
\* sequence and min_length: one with sanitize=True, one with sanitize=False
ValidateBothWays ==
    /\ pc = "start"
    /\ \E h \in Headers, s \in Sequences, m \in MinLengths :
       \E order \in HashOrders(hashed_chars(s)) :
          /\ header' = h
          /\ sequence' = s
          /\ min_length' = m
          /\ sanitize' = TRUE
          /\ result' = validate_sequence(h, s, m, TRUE, order)
          /\ result_unsanitized' = validate_sequence(h, s, m, FALSE, order)
    /\ pc' = "validate_both_ways"
    /\ UNCHANGED <<sequences, results, results2>>
    /\ UNCHANGED report_vars
    /\ UNCHANGED <<gc_percent, base_stats, value_list, quartiles, length_stats, gc_stats>>

NextSanitize == ValidateBothWays

SpecSanitize == Init /\ [][NextSanitize]_vars

----------------------------------------------------------------------------
(* The complexity check on long sequences, and their class in the report *)

\* validation_results = validate_sequences(sequences, min_length, sanitize),
\* for a file of one record over the alphabet
ValidateLongRecord ==
    /\ pc = "start"
    /\ \E s \in LongSequences, m \in MinLengths, san \in BOOLEAN :
          /\ sequences' = <<<<"x", s>>>>
          /\ min_length' = m
          /\ sanitize' = san
          /\ results' = validate_sequences(<<<<"x", s>>>>, m, san, <<>>)
    /\ pc' = "validate_sequences"
    /\ UNCHANGED <<header, sequence, result, results2>>
    /\ UNCHANGED report_vars
    /\ UNCHANGED calc_vars

NextComplexity == ValidateLongRecord \/ GenerateReport

SpecComplexity == Init /\ [][NextComplexity]_vars

----------------------------------------------------------------------------
(* Calls of the report helpers on their own *)

\* One call of _get_top_10_longest
GetTop10Longest ==
    /\ pc = "start"
    /\ \E stats \in StatsLists :
          /\ sequence_stats' = stats
          /\ top_10_longest' = get_top_10_longest(stats)
    /\ pc' = "get_top_10_longest"
    /\ UNCHANGED validator_vars
    /\ UNCHANGED <<summary, report, fasta_export, cleaned_file, format, raised, written>>
    /\ UNCHANGED calc_vars

\* One call of save_report, on a path that can be written or not
SaveReport ==
    /\ pc = "start"
    /\ \E f \in Formats, writable \in BOOLEAN :
          /\ format' = f
          /\ raised' = save_report_raises(f, writable)
          /\ written' = save_report_writes(f, writable)
    /\ pc' = "save_report"
    /\ UNCHANGED validator_vars
    /\ UNCHANGED <<summary, report, fasta_export, cleaned_file, sequence_stats, top_10_longest>>
    /\ UNCHANGED calc_vars

NextStats == GetTop10Longest \/ SaveReport

SpecStats == Init /\ [][NextStats]_vars

----------------------------------------------------------------------------
(* Properties *)

\* A single call of validate_sequence has returned
Returned == pc = "validate_sequence"

\* A call of validate_sequences has returned
BatchReturned == pc \in {"validate_sequences", "rerun"}

\* The characters [ACGTNacgtn]
Alphabet == ACGTN \cup {"a", "c", "g", "t", "n"}

\* The characters of s that are neither in [ACGTNacgtn] nor whitespace
Offending(s) == {c \in Range(s) : c \notin Alphabet /\ ~isspace(c)}

\* s with every whitespace character removed
WithoutWhitespace(s) == SelectSeq(s, LAMBDA c : ~isspace(c))

\* The message e contains "Invalid characters"
IsInvalidCharactersError(e) == e[1] = InvalidCharactersPrefix

\* The message e is a duplicate-header error
IsDuplicateHeaderError(e) == e[1] = DuplicateHeaderPrefix

\* The number of records of the batch whose header is h
Occurrences(h) == Cardinality({i \in 1..Len(sequences) : sequences[i][1] = h})

\* C1: the result of validate_sequence, and every result validate_sequences
\* returns (after the duplicate-header decoration), has is_valid = true if
\* and only if its errors list is empty.
C1_ValidIffNoErrors ==
    /\ Returned => (result.is_valid <=> result.errors = <<>>)
    /\ BatchReturned =>
           \A i \in 1..Len(results) : results[i].is_valid <=> results[i].errors = <<>>
    /\ pc = "rerun" =>
           \A i \in 1..Len(results2) : results2[i].is_valid <=> results2[i].errors = <<>>

\* C1 witness: a batch with a clean record that only the duplicate-header
\* decoration makes invalid, beside a valid record.
C1_Witness ==
    /\ pc = "validate_sequences"
    /\ \E i, j \in 1..Len(results) :
           /\ results[i].errors = <<duplicate_header_error(2)>>
           /\ ~results[i].is_valid
           /\ results[j].is_valid
           /\ results[j].errors = <<>>

\* C2: with sanitize=false the returned corrected_sequence and
\* corrected_length are both None, for every input sequence.
C2_NoCorrectionWithoutSanitize ==
    (Returned /\ ~sanitize) =>
        /\ result.corrected_sequence = None
        /\ result.corrected_length = None

\* C3 as stated: every sequence made only of [ACGTNacgtn] whose length is at
\* least min_length (0 included) is valid with an empty errors list.
C3_CleanLongEnoughIsValid ==
    (/\ Returned
     /\ Range(sequence) \subseteq Alphabet
     /\ Len(sequence) >= min_length) =>
        (result.is_valid /\ result.errors = <<>>)

\* C3 amended: every non-empty sequence made only of [ACGTNacgtn] whose
\* length is at least min_length is valid with an empty errors list, for
\* both sanitize values.
C3_NonEmptyCleanLongEnoughIsValid ==
    (/\ Returned
     /\ sequence # <<>>
     /\ Range(sequence) \subseteq Alphabet
     /\ Len(sequence) >= min_length) =>
        (result.is_valid /\ result.errors = <<>>)

\* C3 witness: a lower-case sequence exactly min_length long, sanitized.
C3_Witness ==
    /\ Returned
    /\ sanitize
    /\ sequence = <<"a", "a">>
    /\ min_length = 2
    /\ result.is_valid

\* C4: with sanitize=false, a sequence with a character that is neither in
\* [ACGTNacgtn] nor whitespace is invalid, and one entry of errors contains
\* "Invalid characters" and names every such character, in the upper case
\* the validator reports characters in.
C4_InvalidCharactersReported ==
    (Returned /\ ~sanitize /\ Offending(sequence) # {}) =>
        /\ ~result.is_valid
        /\ \E j \in 1..Len(result.errors) :
               /\ IsInvalidCharactersError(result.errors[j])
               /\ \A c \in Offending(sequence) :
                      \E k \in 2..Len(result.errors[j]) :
                          result.errors[j][k] = upper_char(c)

\* C4 witness: two distinct offending characters, one of them lower case,
\* among whitespace and a valid base.
C4_Witness ==
    /\ Returned
    /\ ~sanitize
    /\ Offending(sequence) = {"X", "z"}
    /\ \E j \in 1..Len(result.errors) : IsInvalidCharactersError(result.errors[j])

\* The sequence C5 expects as corrected_sequence: upper case, whitespace
\* removed, every character outside A, C, G, T, N replaced by N
C5_Expected(s) ==
    LET u == upper(WithoutWhitespace(s))
    IN  [i \in 1..Len(u) |-> IF u[i] \in ACGTN THEN u[i] ELSE "N"]

\* C5: with sanitize=true, a sequence whose only defect is characters
\* outside the alphabet (its normalized length is at least min_length) is
\* valid: is_valid, no errors, corrected_sequence the upper-case
\* whitespace-free sequence with the offending characters replaced by N,
\* corrected_length its length.
C5_SanitizedIsValid ==
    (/\ Returned
     /\ sanitize
     /\ Offending(sequence) # {}
     /\ Len(WithoutWhitespace(sequence)) >= min_length) =>
        /\ result.is_valid
        /\ result.errors = <<>>
        /\ result.corrected_sequence = Some(C5_Expected(sequence))
        /\ result.corrected_length = Some(Len(C5_Expected(sequence)))

\* C6: for every sequence s, whitespace-only ones and ones with whitespace
\* other than space, tab and newline included, the corrected_sequence of
\* validate_sequence(h, s, 0, true) has only characters of A, C, G, T, N and
\* the length of s with its whitespace removed.
C6_SanitizeRoundTrip ==
    (Returned /\ sanitize /\ min_length = 0) =>
        /\ result.corrected_sequence # None
        /\ Range(Value(result.corrected_sequence)) \subseteq ACGTN
        /\ Len(Value(result.corrected_sequence)) = Len(WithoutWhitespace(sequence))

C8_OneResultPerRecord ==
    BatchReturned =>
        /\ Len(results) = Len(sequences)
        /\ \A i \in 1..Len(sequences) :
               /\ results[i].header = sequences[i][1]
               /\ results[i].sequence_index = i - 1

\* C8 witness: a batch of an empty record, a record with invalid characters
\* and a record with a duplicated header, three results.
C8_Witness ==
    /\ pc = "validate_sequences"
    /\ Len(sequences) = 3
    /\ sequences[1] = <<"x", <<>>>>
    /\ sequences[2] = <<"y", <<"X">>>>
    /\ sequences[3][1] = "x"
    /\ Len(results) = 3
    /\ results[3].sequence_index = 2

\* C9: two runs of validate_sequences on the same batch with the same
\* min_length and sanitize return identical results, the text of every
\* error message included.
C9_Deterministic ==
    pc = "rerun" => results2 = results

\* C10: when the sequence is empty after trimming whitespace,
\* validate_sequence returns is_valid = false, errors exactly
\* ["Empty sequence"] and no warnings, for both sanitize values and every
\* min_length.
C10_EmptySequence ==
    (Returned /\ \A i \in 1..Len(sequence) : isspace(sequence[i])) =>
        /\ ~result.is_valid
        /\ result.errors = <<<<"Empty sequence">>>>
        /\ result.warnings = <<>>

\* C10 witness: a whitespace-only sequence, one character of it not among
\* those the normalization removes, with sanitize and a positive min_length.
C10_Witness ==
    /\ Returned
    /\ sequence = <<" ", "\r">>
    /\ sanitize
    /\ min_length > 0
    /\ result.errors = <<EmptySequenceError>>

\* The message e is a too-short error
IsTooShortError(e) == e[1] = TooShortPrefix

\* The place of a message in the detection order: invalid characters, too
\* short, duplicate header
DetectionRank(e) ==
    IF IsInvalidCharactersError(e) THEN 1
    ELSE IF IsTooShortError(e) THEN 2
    ELSE IF IsDuplicateHeaderError(e) THEN 3
    ELSE 0

\* The errors of a list are in detection order, each kind at most once
InDetectionOrder(errors) ==
    \A j, k \in 1..Len(errors) :
        j < k => DetectionRank(errors[j]) < DetectionRank(errors[k])

\* The characters of s after the upper-casing that are outside A, C, G, T, N
\* and are not space, tab or newline
InvalidAfterNormalization(s) ==
    {upper_char(c) : c \in Range(s)} \ (ACGTN \cup {" ", "\t", "\n"})

\* The number of characters of s that are not space, tab or newline
NormalizedLength(s) ==
    Cardinality({i \in 1..Len(s) : s[i] \notin {" ", "\t", "\n"}})

\* s has a non-whitespace character
NonEmpty(s) == \E i \in 1..Len(s) : ~isspace(s[i])

\* C11: for a non-empty sequence the checks accumulate: a sequence with
\* invalid characters that is shorter than min_length has both errors, and
\* in every result the errors come in the order invalid characters, too
\* short, duplicate header.
C11_ErrorsAccumulateInOrder ==
    /\ (/\ Returned
        /\ NonEmpty(sequence)
        /\ InvalidAfterNormalization(sequence) # {}
        /\ NormalizedLength(sequence) < min_length) =>
           /\ Len(result.errors) = 2
           /\ IsInvalidCharactersError(result.errors[1])
           /\ result.errors[2] =
                  <<"Sequence too short: ", NormalizedLength(sequence),
                    " bp (minimum: ", min_length, " bp)">>
    /\ (Returned /\ NonEmpty(sequence)) => InDetectionOrder(result.errors)
    /\ BatchReturned =>
           \A i \in 1..Len(results) :
               NonEmpty(sequences[i][2]) => InDetectionOrder(results[i].errors)

\* C11 witness: a batch record with invalid characters, shorter than
\* min_length, under a duplicated header: three errors.
C11_Witness ==
    /\ pc = "validate_sequences"
    /\ \E i \in 1..Len(results) :
           /\ Len(results[i].errors) = 3
           /\ IsInvalidCharactersError(results[i].errors[1])
           /\ IsTooShortError(results[i].errors[2])
           /\ IsDuplicateHeaderError(results[i].errors[3])

C13_WhitespaceIsInvalid ==
    (/\ Returned
     /\ ~sanitize
     /\ Range(sequence) \subseteq Alphabet \cup {" ", "\t", "\n"}
     /\ \E i, j, k \in 1..Len(sequence) :
            /\ i < j /\ j < k
            /\ sequence[i] \in Alphabet
            /\ sequence[j] \in {" ", "\t", "\n"}
            /\ sequence[k] \in Alphabet) =>
        /\ ~result.is_valid
        /\ result.errors # <<>>
        /\ IsInvalidCharactersError(result.errors[1])

----------------------------------------------------------------------------
(* Properties of the aggregators and exports *)

\* get_validation_summary has returned
Summarized == pc = "get_validation_summary"

\* The result at position i holds a corrected sequence that the sanitizer
\* changed: a replacement was asked for and made
NeededReplacement(i) ==
    /\ sanitize
    /\ results[i].corrected_sequence # None
    /\ Value(results[i].corrected_sequence) # normalize(sequences[i][2])

\* C14: sanitized_sequences is the number of results whose corrected
\* sequence is present and differs from the original normalized sequence
\* (none when sanitize is false), and the summary of a non-empty batch has
\* sanitization_rate = sanitized / total * 100.
C14_SanitizedCount ==
    Summarized =>
        /\ summary.sanitized_sequences
               = Cardinality({i \in 1..Len(results) : NeededReplacement(i)})
        /\ "sanitization_rate" \in DOMAIN summary
        /\ Len(results) > 0 =>
               FracEq(summary.sanitization_rate,
                      percent(summary.sanitized_sequences, Len(results)))

\* The number of valid results of the batch
ValidCount == Cardinality({i \in 1..Len(results) : results[i].is_valid})

\* C15: the summary of every batch has validity_percentage, equal to
\* valid / total * 100 for a non-empty batch and to 0 for the empty batch,
\* and reading it to display the summary raises nothing.
C15_ValidityPercentageAlways ==
    /\ Summarized =>
           /\ "validity_percentage" \in DOMAIN summary
           /\ FracEq(summary.validity_percentage,
                     IF Len(results) > 0 THEN percent(ValidCount, Len(results))
                     ELSE Frac(0, 1))
    /\ pc = "display_summary" => raised = None

\* generate_report has returned
Reported == pc = "generate_report"

\* The positions of the records whose sequence has a character that is not
\* whitespace: their analyzed sequence is not empty
AnalyzedRecords == {i \in 1..Len(sequences) : NonEmpty(sequences[i][2])}

\* C16: every record with a non-empty analyzed sequence has exactly one
\* entry in sequence_statistics, in the length list and in the GC list,
\* whatever sanitize is; an empty or whitespace-only record has none, and
\* every record counts in the totals.
C16_EveryAnalyzedRecordContributes ==
    Reported =>
        /\ report.summary.total_sequences = Len(sequences)
        /\ report.summary.invalid_sequences = Len(sequences) - ValidCount
        /\ Len(report.sequence_statistics) = Cardinality(AnalyzedRecords)
        /\ {report.sequence_statistics[k].sequence_index + 1 :
                k \in 1..Len(report.sequence_statistics)} = AnalyzedRecords
        /\ AnalyzedRecords # {} =>
               /\ "count" \in DOMAIN report.sequence_lengths
               /\ report.sequence_lengths.count = Cardinality(AnalyzedRecords)
               /\ "count" \in DOMAIN report.gc_content
               /\ report.gc_content.count = Cardinality(AnalyzedRecords)

\* _get_top_10_longest has returned
Ranked == pc = "get_top_10_longest"

\* Entry a comes before entry b: longer, or as long and earlier in the input
Before(a, b) ==
    \/ a.length > b.length
    \/ (a.length = b.length /\ a.sequence_index < b.sequence_index)

\* The sequence_index values of the ranked entries
RankedIndices == {top_10_longest[p].sequence_index : p \in 1..Len(top_10_longest)}

\* C17: top_10_longest has min(10, number of sequences) entries, by length
\* descending with equal lengths in input order; the entry at position p
\* (0-based) has rank p + 1 and the header, length and sequence_index of
\* the sequence it ranks, and no sequence left out comes before a ranked one.
C17_TopTenLongest ==
    Ranked =>
        /\ Len(top_10_longest)
               = (IF Len(sequence_stats) < 10 THEN Len(sequence_stats) ELSE 10)
        /\ \A p \in 1..Len(top_10_longest) :
               /\ top_10_longest[p].rank = p
               /\ \E k \in 1..Len(sequence_stats) :
                      /\ sequence_stats[k].sequence_index = top_10_longest[p].sequence_index
                      /\ sequence_stats[k].header = top_10_longest[p].header
                      /\ sequence_stats[k].length = top_10_longest[p].length
        /\ \A p, q \in 1..Len(top_10_longest) :
               p < q => Before(top_10_longest[p], top_10_longest[q])
        /\ \A k \in 1..Len(sequence_stats) :
               sequence_stats[k].sequence_index \notin RankedIndices =>
                   \A p \in 1..Len(top_10_longest) :
                       Before(top_10_longest[p], sequence_stats[k])

\* Eleven sequences, the first one shorter than the second and the last:
\* the first is left out, and the equal lengths keep their input order
C17_Witness ==
    /\ Ranked
    /\ Len(sequence_stats) = 11
    /\ sequence_stats[1].length = 1
    /\ sequence_stats[2].length = 2
    /\ sequence_stats[11].length = 2
    /\ Len(top_10_longest) = 10
    /\ top_10_longest[1].sequence_index = 1
    /\ 0 \notin RankedIndices

\* The four quality classes
QualityLevels == {"high_quality", "medium_quality", "low_quality", "unusable"}

\* The results of the batch that are of the given class
InClass(level) ==
    {i \in 1..Len(results) :
        LET r == results[i]
            invalid_characters ==
                \E j \in 1..Len(r.errors) : IsInvalidCharactersError(r.errors[j])
        IN  CASE level = "high_quality"   -> r.errors = <<>> /\ r.warnings = <<>>
              [] level = "medium_quality" -> r.errors = <<>> /\ r.warnings # <<>>
              [] level = "low_quality"    -> r.errors # <<>> /\ invalid_characters
              [] level = "unusable"       -> r.errors # <<>> /\ ~invalid_characters}

\* The report counts every result in its class, and the four counts sum to
\* the number of results
FourCounts ==
    /\ DOMAIN report.quality_distribution = QualityLevels
    /\ \A level \in QualityLevels :
           report.quality_distribution[level] = Cardinality(InClass(level))
    /\ report.quality_distribution["high_quality"]
         + report.quality_distribution["medium_quality"]
         + report.quality_distribution["low_quality"]
         + report.quality_distribution["unusable"] = Len(results)

\* C18 as stated: the report of every batch counts each result in exactly
\* one of the four classes, and the four counts sum to the number of results.
C18_FourCountsAlways == Reported => FourCounts

\* C18: the report of a non-empty batch counts each result in exactly one
\* of the four classes and the four counts sum to the number of results;
\* the report of the empty batch has an empty quality_distribution.
C18_FourCountsWhenNonEmpty ==
    Reported =>
        IF results # <<>> THEN FourCounts
        ELSE report.quality_distribution = EmptyDict

\* A batch with a result of medium quality, one of low quality and an
\* unusable one
C18_Witness ==
    /\ Reported
    /\ Len(results) = 3
    /\ report.quality_distribution["medium_quality"] = 1
    /\ report.quality_distribution["low_quality"] = 1
    /\ report.quality_distribution["unusable"] = 1

\* s cut into lines of 60 characters, the last one shorter
RECURSIVE Lines60(_)
Lines60(s) ==
    IF s = <<>> THEN <<>>
    ELSE IF Len(s) <= 60 THEN <<s>>
    ELSE <<SubSeq(s, 1, 60)>> \o Lines60(SubSeq(s, 61, Len(s)))

\* The sequence exported for the result at position i: the corrected one
\* if sanitized, else the original
ChosenSequence(i) ==
    IF sanitize /\ results[i].corrected_sequence # None
    THEN Value(results[i].corrected_sequence)
    ELSE sequences[i][2]

\* The lines of the export of the batch: for every valid result, in input
\* order, the header line, the lines of the chosen sequence, a blank line
ValidRecordsExport ==
    flatten([i \in 1..Len(results) |->
                IF results[i].is_valid
                THEN <<<<">", results[i].header>>>> \o Lines60(ChosenSequence(i)) \o <<<<>>>>
                ELSE <<>>])

\* C19: both exports, the web export and the file of the command line,
\* hold a record for every valid result and for no invalid one, in input
\* order: the header line, the chosen sequence in lines of at most 60
\* characters, a blank line.
C19_ExportsValidRecordsOnly ==
    /\ pc = "generate_fasta_export" => Value(fasta_export) = ValidRecordsExport
    /\ (pc = "save_cleaned_sequences" /\ cleaned_file # None) =>
           Value(cleaned_file) = ValidRecordsExport

\* save_report has returned or raised
Saved == pc = "save_report"

\* The format is neither "json" nor "csv", whatever its case
Unsupported == format \notin {"json", "JSON", "csv"}

\* C20: save_report with an unsupported format raises ValueError
\* "Unsupported format" and writes no file; with a supported format it
\* either writes the file or raises IOError "Error saving report": the
\* caller tells the two failures apart by their type.
C20_DistinctFailures ==
    Saved =>
        IF Unsupported
        THEN /\ raised # None
             /\ Value(raised).type = "ValueError"
             /\ Value(raised).message[1] = "Unsupported format: "
             /\ ~written
        ELSE \/ raised = None /\ written
             \/ /\ raised # None
                /\ Value(raised).type = "IOError"
                /\ Value(raised).message[1] = "Error saving report: "
                /\ ~written

\* The top-level keys of a report
ReportKeys == {"metadata", "summary", "sequence_lengths", "gc_content", "top_10_longest",
               "quality_distribution", "error_analysis", "invalid_sequences_detail",
               "sequence_statistics"}

\* The counts of a report's summary
SummaryCounts == {"total_sequences", "valid_sequences", "invalid_sequences",
                  "sanitized_sequences", "duplicate_headers"}

\* The percentages of a report's summary
SummaryRates == {"validity_percentage", "sanitization_rate"}

\* C21: the report of an empty list of results has every top-level key,
\* summary counts and percentages all 0, empty maps for sequence_lengths
\* and gc_content, and empty lists for top_10_longest,
\* invalid_sequences_detail and sequence_statistics.
C21_EmptyReportWellFormed ==
    (Reported /\ results = <<>>) =>
        /\ DOMAIN report = ReportKeys
        /\ report.metadata.total_sequences = 0
        /\ DOMAIN report.summary = SummaryCounts \cup SummaryRates
        /\ \A k \in SummaryCounts : report.summary[k] = 0
        /\ \A k \in SummaryRates : FracEq(report.summary[k], Frac(0, 1))
        /\ report.sequence_lengths = EmptyDict
        /\ report.gc_content = EmptyDict
        /\ report.top_10_longest = <<>>
        /\ report.invalid_sequences_detail = <<>>
        /\ report.sequence_statistics = <<>>

\* The report of the empty batch has been generated
C21_Witness ==
    /\ Reported
    /\ sequences = <<>>
    /\ results = <<>>
    /\ report.summary.total_sequences = 0

\* calculate_gc_content and calculate_sequence_stats have returned
GcComputed == pc \in {"calculate_gc_content", "chart_gc_content"}

\* The number of characters of s that are c in either case
Bases(s, c) == Cardinality({i \in 1..Len(s) : upper_char(s[i]) = c})

\* C22: the GC content of a sequence is (G + C) * 100 / (A + C + G + T),
\* in either case, N and the other characters left out, and 0 when there
\* is no A, C, G or T; the GC value and the base counts of the report's
\* entry for a sequence are those of calculate_gc_content and
\* calculate_sequence_stats on that sequence.
C22_GcContent ==
    /\ GcComputed =>
           LET gc == Bases(sequence, "G") + Bases(sequence, "C")
               acgt == gc + Bases(sequence, "A") + Bases(sequence, "T")
           IN  /\ acgt = 0 => FracEq(Value(gc_percent), Frac(0, 1))
               /\ acgt > 0 => FracEq(Value(gc_percent), Frac(gc * 100, acgt))
               /\ FracEq(Value(base_stats).gc_content, Value(gc_percent))
    /\ pc = "chart_gc_content" =>
           LET entry == report.sequence_statistics[1]
           IN  /\ Len(report.sequence_statistics) = 1
               /\ FracEq(entry.gc_content, Value(gc_percent))
               /\ \A k \in DOMAIN Value(base_stats) \ {"gc_content"} :
                      entry[k] = Value(base_stats)[k]

\* A sanitized sequence with G, a lower-case c, an N and a replaced
\* character: for the report and the helpers both bases are G or C, the
\* N's left out
C22_Witness ==
    /\ pc = "chart_gc_content"
    /\ sanitize
    /\ sequences[1][2] = <<"G", "c", "x">>
    /\ sequence = <<"G", "C", "N">>
    /\ Value(base_stats).n_count = 1
    /\ FracEq(Value(gc_percent), Frac(100, 1))

\* The code point of a character that can be reported as invalid
CodePoint(c) ==
    CASE c = "\r" -> 13
      [] c = "X"  -> 88
      [] c = "Z"  -> 90
      [] OTHER    -> 0

\* The characters of S in sorted order, each once
SortedChars(S) ==
    CHOOSE o \in [1..Cardinality(S) -> S] :
        \A i, j \in 1..Cardinality(S) : i < j => CodePoint(o[i]) < CodePoint(o[j])

\* C23: the invalid-characters error lists each offending character once,
\* in sorted order, separated by ", ".
C23_OffendingCharactersSorted ==
    Returned =>
        \A j \in 1..Len(result.errors) :
            IsInvalidCharactersError(result.errors[j]) =>
                result.errors[j]
                    = <<InvalidCharactersPrefix>>
                      \o join(", ", SortedChars(InvalidAfterNormalization(sequence)))

\* C24: whenever validate_sequence with sanitize=True returns a
\* corrected_sequence, corrected_length is the length of that sequence.
C24_CorrectedLengthMatches ==
    (Returned /\ sanitize /\ result.corrected_sequence # None) =>
        result.corrected_length = Some(Len(Value(result.corrected_sequence)))

\* The element at index k (0-based) of the ascending sort of xs: fewer
\* than k + 1 elements are below it and at least k + 1 are not above it
ElementOfSorted(xs, k) ==
    CHOOSE v \in Range(xs) :
        /\ Cardinality({i \in 1..Len(xs) : xs[i] < v}) <= k
        /\ Cardinality({i \in 1..Len(xs) : xs[i] <= v}) > k

\* The numerators of a list of quotients with denominator 1
Numerators(xs) == [i \in 1..Len(xs) |-> xs[i][1]]

C26_LowerMiddleForEvenCounts ==
    LET n == Len(value_list)
    IN  (pc = "calculate_quartiles" /\ n > 0 /\ n % 2 = 0) =>
            /\ quartiles.q2 = ElementOfSorted(value_list, (n \div 2) - 1)
            /\ quartiles.q3 = ElementOfSorted(value_list, ((3 * n) \div 4) - 1)
            /\ value_list = <<1, 2, 3, 4, 5, 6, 7, 8>> =>
                   /\ quartiles.q1 = 3
                   /\ quartiles.q2 = 4
                   /\ quartiles.q3 = 6

\* The batch has its summary and its report
SummarizedAndReported == pc = "report_after_summary"

\* C27: the summary and the report classify every error the same way and
\* under the same labels: for one batch, the error_types of the summary
\* and the error_types of the report's error_analysis have the same keys
\* and the same counts.
C27_SameErrorTypes ==
    SummarizedAndReported =>
        summary.error_types = report.error_analysis.error_types

\* The type the report files an error under, the first matching rule winning
ReportErrorType(e) ==
    IF IsInvalidCharactersError(e) THEN "Invalid characters"
    ELSE IF IsTooShortError(e) THEN "Too short"
    ELSE IF IsDuplicateHeaderError(e) THEN "Duplicate header"
    ELSE IF e = EmptySequenceError THEN "Empty sequence"
    ELSE "Other"

\* The types of the errors of all the results of the batch, in input order
BatchErrorTypes ==
    flatten([i \in 1..Len(results) |->
                [j \in 1..Len(results[i].errors) |-> ReportErrorType(results[i].errors[j])]])

\* The number of errors of the batch that are of type t
ErrorsOfType(t) == Cardinality({k \in 1..Len(BatchErrorTypes) : BatchErrorTypes[k] = t})

\* The place where type t is first met
FirstMet(t) == CHOOSE k \in 1..Len(BatchErrorTypes) :
                   /\ BatchErrorTypes[k] = t
                   /\ \A l \in 1..(k - 1) : BatchErrorTypes[l] # t

\* The positions of the invalid results, in input order
InvalidPositions ==
    SelectSeq([i \in 1..Len(results) |-> i], LAMBDA i : ~results[i].is_valid)

\* The error analysis and the invalid-sequence detail of the report are
\* those of the batch
ErrorAnalysisOfBatch ==
    LET analysis == report.error_analysis
        detail == report.invalid_sequences_detail
    IN  /\ "total_errors" \in DOMAIN analysis
        /\ analysis.total_errors = Len(BatchErrorTypes)
        /\ DOMAIN analysis.error_types = Range(BatchErrorTypes)
        /\ \A t \in Range(BatchErrorTypes) : analysis.error_types[t] = ErrorsOfType(t)
        /\ IF BatchErrorTypes = <<>> THEN analysis.most_common_error = None
           ELSE /\ analysis.most_common_error # None
                /\ LET most == Value(analysis.most_common_error)
                   IN  /\ most \in Range(BatchErrorTypes)
                       /\ \A t \in Range(BatchErrorTypes) :
                              \/ ErrorsOfType(t) < ErrorsOfType(most)
                              \/ /\ ErrorsOfType(t) = ErrorsOfType(most)
                                 /\ FirstMet(most) <= FirstMet(t)
        /\ Len(detail) = Len(InvalidPositions)
        /\ \A k \in 1..Len(detail) :
               /\ detail[k].index = InvalidPositions[k] - 1
               /\ detail[k].header = results[InvalidPositions[k]].header
               /\ detail[k].errors = results[InvalidPositions[k]].errors

\* C28 as stated: in the report of every batch, total_errors is the number
\* of error strings of the batch and the sum of the error_types counts,
\* most_common_error is a type with the highest count, the first met among
\* equals, and invalid_sequences_detail holds the invalid results in input
\* order.
C28_ErrorAnalysisAlways == Reported => ErrorAnalysisOfBatch

\* C28: the same for every non-empty batch; the report of the empty batch
\* has an empty error_analysis and an empty invalid_sequences_detail.
C28_ErrorAnalysisWhenNonEmpty ==
    Reported =>
        IF results # <<>> THEN ErrorAnalysisOfBatch
        ELSE /\ report.error_analysis = EmptyDict
             /\ report.invalid_sequences_detail = <<>>

\* An empty-sequence error, a valid result, an invalid-characters error:
\* two types with one error each, the one met first is the most common
C28_Witness ==
    /\ Reported
    /\ Len(results) = 3
    /\ BatchErrorTypes = <<"Empty sequence", "Invalid characters">>
    /\ results[2].is_valid
    /\ report.error_analysis.most_common_error = Some("Empty sequence")
    /\ report.error_analysis.total_errors = 2
    /\ Len(report.invalid_sequences_detail) = 2
    /\ report.invalid_sequences_detail[2].index = 2

\* validate_sequence has returned for both values of sanitize
ReturnedBothWays == pc = "validate_both_ways"

OneCleanRecord == Len(sequences) = 1 /\ Range(sequences[1][2]) \subseteq ACGTN

\* The result of the one record has the low complexity warning
WarnedLowComplexity ==
    \E j \in 1..Len(results[1].warnings) : results[1].warnings[j] = LowComplexityWarning

====
